---- MODULE Spec2Model ----
(***************************************************************************)
(* Voice Agents Studio (src/components/AgentStudio.tsx): the AgentStudio   *)
(* component's state, its event handlers and effects, and the reply        *)
(* generator, as a state machine.                                          *)
(*                                                                         *)
(* A JavaScript string is modelled as the sequence of its UTF-16 code      *)
(* units, so that trim, toLowerCase, includes, slice and charCodeAt are    *)
(* computed rather than assumed.  Identifiers that the code only compares  *)
(* for equality (persona ids, sender tags, error codes) are TLA+ strings.  *)
(***************************************************************************)
EXTENDS Integers, Sequences, FiniteSets, TLC

\* ---- string literals of the source (code units) ----

\* "Connor"
Str_Connor == <<67, 111, 110, 110, 111, 114>>

\* "Lyra"
Str_Lyra == <<76, 121, 114, 97>>

\* "Atlas"
Str_Atlas == <<65, 116, 108, 97, 115>>

\* "Strategy Architect"
Str_StrategyArchitect ==
  <<83, 116, 114, 97, 116, 101, 103, 121, 32, 65, 114, 99, 104, 105, 116, 101, 99, 116>>

\* "Conversational UX Designer"
Str_ConversationalUXDesigner ==
  <<67, 111, 110, 118, 101, 114, 115, 97, 116, 105, 111, 110, 97, 108, 32, 85, 88, 32, 68,
    101, 115, 105, 103, 110, 101, 114>>

\* "Systems Navigator"
Str_SystemsNavigator ==
  <<83, 121, 115, 116, 101, 109, 115, 32, 78, 97, 118, 105, 103, 97, 116, 111, 114>>

\* "Growth roadmaps, product positioning, partner orchestration"
Str_ConnorExpertise ==
  <<71, 114, 111, 119, 116, 104, 32, 114, 111, 97, 100, 109, 97, 112, 115, 44, 32, 112, 114,
    111, 100, 117, 99, 116, 32, 112, 111, 115, 105, 116, 105, 111, 110, 105, 110, 103, 44,
    32, 112, 97, 114, 116, 110, 101, 114, 32, 111, 114, 99, 104, 101, 115, 116, 114, 97,
    116, 105, 111, 110>>

\* "Dialog flows, persona crafting, empathetic interactions"
Str_LyraExpertise ==
  <<68, 105, 97, 108, 111, 103, 32, 102, 108, 111, 119, 115, 44, 32, 112, 101, 114, 115,
    111, 110, 97, 32, 99, 114, 97, 102, 116, 105, 110, 103, 44, 32, 101, 109, 112, 97, 116,
    104, 101, 116, 105, 99, 32, 105, 110, 116, 101, 114, 97, 99, 116, 105, 111, 110, 115>>

\* "API orchestration, tool integrations, reliability guardrails"
Str_AtlasExpertise ==
  <<65, 80, 73, 32, 111, 114, 99, 104, 101, 115, 116, 114, 97, 116, 105, 111, 110, 44, 32,
    116, 111, 111, 108, 32, 105, 110, 116, 101, 103, 114, 97, 116, 105, 111, 110, 115, 44,
    32, 114, 101, 108, 105, 97, 98, 105, 108, 105, 116, 121, 32, 103, 117, 97, 114, 100,
    114, 97, 105, 108, 115>>

\* "Let's map the path to sustainable growth together."
Str_ConnorGreeting ==
  <<76, 101, 116, 39, 115, 32, 109, 97, 112, 32, 116, 104, 101, 32, 112, 97, 116, 104, 32,
    116, 111, 32, 115, 117, 115, 116, 97, 105, 110, 97, 98, 108, 101, 32, 103, 114, 111,
    119, 116, 104, 32, 116, 111, 103, 101, 116, 104, 101, 114, 46>>

\* "I'm here to help design delightful voice journeys."
Str_LyraGreeting ==
  <<73, 39, 109, 32, 104, 101, 114, 101, 32, 116, 111, 32, 104, 101, 108, 112, 32, 100, 101,
    115, 105, 103, 110, 32, 100, 101, 108, 105, 103, 104, 116, 102, 117, 108, 32, 118, 111,
    105, 99, 101, 32, 106, 111, 117, 114, 110, 101, 121, 115, 46>>

\* "Let's make your agent dependable and responsive end-to-end."
Str_AtlasGreeting ==
  <<76, 101, 116, 39, 115, 32, 109, 97, 107, 101, 32, 121, 111, 117, 114, 32, 97, 103, 101,
    110, 116, 32, 100, 101, 112, 101, 110, 100, 97, 98, 108, 101, 32, 97, 110, 100, 32, 114,
    101, 115, 112, 111, 110, 115, 105, 118, 101, 32, 101, 110, 100, 45, 116, 111, 45, 101,
    110, 100, 46>>

\* "hello"
Str_hello == <<104, 101, 108, 108, 111>>

\* "hi"
Str_hi == <<104, 105>>

\* "plan"
Str_plan == <<112, 108, 97, 110>>

\* "strategy"
Str_strategy == <<115, 116, 114, 97, 116, 101, 103, 121>>

\* "voice"
Str_voice == <<118, 111, 105, 99, 101>>

\* "tone"
Str_tone == <<116, 111, 110, 101>>

\* "en"
Str_en == <<101, 110>>

\* ": "
Str_ColonSpace == <<58, 32>>

\* " <U+00B7> "
Str_Dot == <<32, 183, 32>>

\* "Here's a quick framework<U+2014>orient on the desired outcome, segment the audience, then orchestrate a sequence of voice touchpoints where each agent owns a slice of the journey."
Str_Framework ==
  <<72, 101, 114, 101, 39, 115, 32, 97, 32, 113, 117, 105, 99, 107, 32, 102, 114, 97, 109,
    101, 119, 111, 114, 107, 8212, 111, 114, 105, 101, 110, 116, 32, 111, 110, 32, 116, 104,
    101, 32, 100, 101, 115, 105, 114, 101, 100, 32, 111, 117, 116, 99, 111, 109, 101, 44,
    32, 115, 101, 103, 109, 101, 110, 116, 32, 116, 104, 101, 32, 97, 117, 100, 105, 101,
    110, 99, 101, 44, 32, 116, 104, 101, 110, 32, 111, 114, 99, 104, 101, 115, 116, 114, 97,
    116, 101, 32, 97, 32, 115, 101, 113, 117, 101, 110, 99, 101, 32, 111, 102, 32, 118, 111,
    105, 99, 101, 32, 116, 111, 117, 99, 104, 112, 111, 105, 110, 116, 115, 32, 119, 104,
    101, 114, 101, 32, 101, 97, 99, 104, 32, 97, 103, 101, 110, 116, 32, 111, 119, 110, 115,
    32, 97, 32, 115, 108, 105, 99, 101, 32, 111, 102, 32, 116, 104, 101, 32, 106, 111, 117,
    114, 110, 101, 121, 46>>

\* "Let's match tone and pacing to the listener's intent. I'll keep responses concise, warm, and directive, then hand-off to teammates where depth is required."
Str_Tone ==
  <<76, 101, 116, 39, 115, 32, 109, 97, 116, 99, 104, 32, 116, 111, 110, 101, 32, 97, 110,
    100, 32, 112, 97, 99, 105, 110, 103, 32, 116, 111, 32, 116, 104, 101, 32, 108, 105, 115,
    116, 101, 110, 101, 114, 39, 115, 32, 105, 110, 116, 101, 110, 116, 46, 32, 73, 39, 108,
    108, 32, 107, 101, 101, 112, 32, 114, 101, 115, 112, 111, 110, 115, 101, 115, 32, 99,
    111, 110, 99, 105, 115, 101, 44, 32, 119, 97, 114, 109, 44, 32, 97, 110, 100, 32, 100,
    105, 114, 101, 99, 116, 105, 118, 101, 44, 32, 116, 104, 101, 110, 32, 104, 97, 110,
    100, 45, 111, 102, 102, 32, 116, 111, 32, 116, 101, 97, 109, 109, 97, 116, 101, 115, 32,
    119, 104, 101, 114, 101, 32, 100, 101, 112, 116, 104, 32, 105, 115, 32, 114, 101, 113,
    117, 105, 114, 101, 100, 46>>

\* "I'm mapping your ask against our "
Str_T0a ==
  <<73, 39, 109, 32, 109, 97, 112, 112, 105, 110, 103, 32, 121, 111, 117, 114, 32, 97, 115,
    107, 32, 97, 103, 97, 105, 110, 115, 116, 32, 111, 117, 114, 32>>

\* ". Here's what stands out: "
Str_T0b ==
  <<46, 32, 72, 101, 114, 101, 39, 115, 32, 119, 104, 97, 116, 32, 115, 116, 97, 110, 100,
    115, 32, 111, 117, 116, 58, 32>>

\* "To keep the interaction fluid, I'll acknowledge intent, surface one actionable insight, and invite next steps."
Str_T1 ==
  <<84, 111, 32, 107, 101, 101, 112, 32, 116, 104, 101, 32, 105, 110, 116, 101, 114, 97, 99,
    116, 105, 111, 110, 32, 102, 108, 117, 105, 100, 44, 32, 73, 39, 108, 108, 32, 97, 99,
    107, 110, 111, 119, 108, 101, 100, 103, 101, 32, 105, 110, 116, 101, 110, 116, 44, 32,
    115, 117, 114, 102, 97, 99, 101, 32, 111, 110, 101, 32, 97, 99, 116, 105, 111, 110, 97,
    98, 108, 101, 32, 105, 110, 115, 105, 103, 104, 116, 44, 32, 97, 110, 100, 32, 105, 110,
    118, 105, 116, 101, 32, 110, 101, 120, 116, 32, 115, 116, 101, 112, 115, 46>>

\* "I'll route this to another agent if we need deeper execution support. For now, here's how I recommend moving forward."
Str_T2 ==
  <<73, 39, 108, 108, 32, 114, 111, 117, 116, 101, 32, 116, 104, 105, 115, 32, 116, 111, 32,
    97, 110, 111, 116, 104, 101, 114, 32, 97, 103, 101, 110, 116, 32, 105, 102, 32, 119,
    101, 32, 110, 101, 101, 100, 32, 100, 101, 101, 112, 101, 114, 32, 101, 120, 101, 99,
    117, 116, 105, 111, 110, 32, 115, 117, 112, 112, 111, 114, 116, 46, 32, 70, 111, 114,
    32, 110, 111, 119, 44, 32, 104, 101, 114, 101, 39, 115, 32, 104, 111, 119, 32, 73, 32,
    114, 101, 99, 111, 109, 109, 101, 110, 100, 32, 109, 111, 118, 105, 110, 103, 32, 102,
    111, 114, 119, 97, 114, 100, 46>>

\* "Let me mirror back what I heard: ""
Str_T3a ==
  <<76, 101, 116, 32, 109, 101, 32, 109, 105, 114, 114, 111, 114, 32, 98, 97, 99, 107, 32,
    119, 104, 97, 116, 32, 73, 32, 104, 101, 97, 114, 100, 58, 32, 34>>

\* "". Building on that, here's a refined direction."
Str_T3b ==
  <<34, 46, 32, 66, 117, 105, 108, 100, 105, 110, 103, 32, 111, 110, 32, 116, 104, 97, 116,
    44, 32, 104, 101, 114, 101, 39, 115, 32, 97, 32, 114, 101, 102, 105, 110, 101, 100, 32,
    100, 105, 114, 101, 99, 116, 105, 111, 110, 46>>

\* "I'm layering in our orchestration best practices so the conversation stays aligned with your target outcome."
Str_T4 ==
  <<73, 39, 109, 32, 108, 97, 121, 101, 114, 105, 110, 103, 32, 105, 110, 32, 111, 117, 114,
    32, 111, 114, 99, 104, 101, 115, 116, 114, 97, 116, 105, 111, 110, 32, 98, 101, 115,
    116, 32, 112, 114, 97, 99, 116, 105, 99, 101, 115, 32, 115, 111, 32, 116, 104, 101, 32,
    99, 111, 110, 118, 101, 114, 115, 97, 116, 105, 111, 110, 32, 115, 116, 97, 121, 115,
    32, 97, 108, 105, 103, 110, 101, 100, 32, 119, 105, 116, 104, 32, 121, 111, 117, 114,
    32, 116, 97, 114, 103, 101, 116, 32, 111, 117, 116, 99, 111, 109, 101, 46>>

\* ---- inputs and edit values drawn by the model ----

\* "   "
In_blank == <<32, 32, 32>>

\* "hi"
In_hi == <<104, 105>>

\* "Hi there, any plan?"
In_HiTherePlan ==
  <<72, 105, 32, 116, 104, 101, 114, 101, 44, 32, 97, 110, 121, 32, 112, 108, 97, 110, 63>>

\* "strategy please"
In_StrategyPlease ==
  <<115, 116, 114, 97, 116, 101, 103, 121, 32, 112, 108, 101, 97, 115, 101>>

\* "Voice and tone"
In_VoiceTone == <<86, 111, 105, 99, 101, 32, 97, 110, 100, 32, 116, 111, 110, 101>>

\* " plan a voice "
In_PlanVoice == <<32, 112, 108, 97, 110, 32, 97, 32, 118, 111, 105, 99, 101, 32>>

\* "xyz123"
In_xyz123 == <<120, 121, 122, 49, 50, 51>>

\* " ok "
In_ok == <<32, 111, 107, 32>>

\* "polygenelubricants"
In_polygenelubricants ==
  <<112, 111, 108, 121, 103, 101, 110, 101, 108, 117, 98, 114, 105, 99, 97, 110, 116, 115>>

\* "Nova"
Ed_Nova == <<78, 111, 118, 97>>

\* "Welcome."
Ed_Welcome == <<87, 101, 108, 99, 111, 109, 101, 46>>

\* "Coach"
Ed_Coach == <<67, 111, 97, 99, 104>>

\* "QA Reviews"
Ed_QA == <<81, 65, 32, 82, 101, 118, 105, 101, 119, 115>>

\* "Alex"
V_Alex == <<65, 108, 101, 120>>

\* "Kate"
V_Kate == <<75, 97, 116, 101>>

\* "Thomas"
V_Thomas == <<84, 104, 111, 109, 97, 115>>

\* "Nicolas"
V_Nicolas == <<78, 105, 99, 111, 108, 97, 115>>

\* "en-US"
Lang_enUS == <<101, 110, 45, 85, 83>>

\* "en-GB"
Lang_enGB == <<101, 110, 45, 71, 66>>

\* "fr-FR"
Lang_frFR == <<102, 114, 45, 70, 82>>

\* "Connor: Let's map the path to sustainable growth together."
Str_ConnorHiReply ==
  <<67, 111, 110, 110, 111, 114, 58, 32, 76, 101, 116, 39, 115, 32, 109, 97, 112, 32, 116,
    104, 101, 32, 112, 97, 116, 104, 32, 116, 111, 32, 115, 117, 115, 116, 97, 105, 110, 97,
    98, 108, 101, 32, 103, 114, 111, 119, 116, 104, 32, 116, 111, 103, 101, 116, 104, 101,
    114, 46>>

\* ---- bounds of the model ----

\* External events (user input and platform callbacks) handled in one behaviour.
MaxEvents == 4

\* Length of the drafts typed over DraftAlphabet in the reply specification.
MaxLen == 2

\* ---- JavaScript string operations ----

\* String.prototype.concat / template literal of several parts.
RECURSIVE Concat(_)
Concat(parts) ==
  IF parts = <<>> THEN <<>> ELSE Head(parts) \o Concat(Tail(parts))

\* WhiteSpace and LineTerminator code units stripped by String.prototype.trim.
WhiteSpace == {9, 10, 11, 12, 13, 32, 160, 5760, 8232, 8233, 8239, 8287, 12288, 65279}
              \cup (8192..8202)

RECURSIVE TrimStart(_)
TrimStart(s) ==
  IF s # <<>> /\ Head(s) \in WhiteSpace THEN TrimStart(Tail(s)) ELSE s

RECURSIVE TrimEnd(_)
TrimEnd(s) ==
  IF s # <<>> /\ s[Len(s)] \in WhiteSpace THEN TrimEnd(SubSeq(s, 1, Len(s) - 1)) ELSE s

Trim(s) == TrimEnd(TrimStart(s))

\* String.prototype.toLowerCase on the code units the model draws (Basic
\* Latin; the other units used, U+00B7 and U+2014, have no lower case).
LowerUnit(c) == IF c >= 65 /\ c <= 90 THEN c + 32 ELSE c

ToLowerCase(s) == [i \in 1..Len(s) |-> LowerUnit(s[i])]

\* String.prototype.includes
Includes(s, needle) ==
  \E i \in 0..(Len(s) - Len(needle)) : SubSeq(s, i + 1, i + Len(needle)) = needle

\* String.prototype.startsWith
StartsWith(s, prefix) ==
  Len(s) >= Len(prefix) /\ SubSeq(s, 1, Len(prefix)) = prefix

\* String.prototype.slice(0, n)
Slice0(s, n) == SubSeq(s, 1, IF Len(s) < n THEN Len(s) ELSE n)

\* ---- 32-bit integer arithmetic ----
\* A 32-bit word is the pair <<high, low>> of its 16-bit halves: the model
\* checker's integers are themselves 32 bits wide, and the intermediate
\* values of hashString (a Number, exact up to 2^53) exceed them.

Half == 256 * 256

Word(hi, lo) == <<hi % Half, lo % Half>>

\* x << 5 (ToInt32 of the shifted value)
Shl5(x) == Word(x[1] * 32 + (x[2] * 32) \div Half, x[2] * 32)

\* (a - b + c) | 0 for 32-bit a, b and a code unit c
SubAddTrunc(a, b, c) ==
  LET lo == a[2] - b[2] + c
  IN  Word(a[1] - b[1] + (lo \div Half), lo)

\* The signed value of a word (ToInt32).
ToInt32(x) ==
  IF x[1] >= Half \div 2 THEN (x[1] - Half) * Half + x[2] ELSE x[1] * Half + x[2]

\* ---- hashString, synthesizeResponse, generateAgentReply ----

\* A 32-bit word: what hash holds after each hash |= 0.
IsWord(x) == x[1] \in 0..(Half - 1) /\ x[2] \in 0..(Half - 1)

\* The loop of hashString from an accumulator: hash = (hash << 5) - hash +
\* charCode; hash |= 0.  (The accumulator is always a word; testing it makes
\* the model checker evaluate it at every iteration.)
RECURSIVE HashFrom(_, _)
HashFrom(hash, value) ==
  IF value = <<>> \/ ~IsWord(hash) THEN hash
  ELSE HashFrom(SubAddTrunc(Shl5(hash), hash, Head(value)), Tail(value))

hashString(value) == ToInt32(HashFrom(<<0, 0>>, value))

\* Math.abs(h) % n as JavaScript computes it on Numbers: |h| is exact, also
\* for h = -2^31, whose absolute value 2^31 = (-(h + 1)) + 1 is not a 32-bit
\* integer.
AbsMod(h, n) ==
  IF h >= 0 THEN h % n ELSE (((-(h + 1)) % n) + 1) % n

\* The same with a 32-bit abs, which leaves -2^31 negative; JavaScript's %
\* takes the sign of the dividend.
AbsMod_Int32(h, n) ==
  IF h >= 0 THEN h % n
  ELSE IF h = (0 - Half) * (Half \div 2) THEN 0 - ((((-(h + 1)) % n) + 1) % n)
  ELSE (-h) % n

\* The five templates of synthesizeResponse.
Templates(agent, input) ==
  << Concat(<<Str_T0a, ToLowerCase(agent.expertise), Str_T0b, input>>),
     Str_T1,
     Str_T2,
     Concat(<<Str_T3a, input, Str_T3b>>),
     Str_T4 >>

\* index = Math.abs(hashString(input)) % templates.length, with a 32-bit abs.
TemplateIndex_Int32Abs(agent, input) ==
  AbsMod_Int32(hashString(input), Len(Templates(agent, input)))

\* index = Math.abs(hashString(input)) % templates.length
TemplateIndex(agent, input) ==
  AbsMod(hashString(input), Len(Templates(agent, input)))

synthesizeResponse(agent, input) ==
  Templates(agent, input)[TemplateIndex(agent, input) + 1]

\* generateAgentReply with the plan/strategy rule tested before the greeting rule.
generateAgentReply_PlanFirst(agent, input) ==
  LET normalizedInput == ToLowerCase(Trim(input))
  IN  IF Includes(normalizedInput, Str_plan) \/ Includes(normalizedInput, Str_strategy)
        THEN Concat(<<agent.name, Str_ColonSpace, Str_Framework>>)
      ELSE IF Includes(normalizedInput, Str_hello) \/ Includes(normalizedInput, Str_hi)
        THEN Concat(<<agent.name, Str_ColonSpace, agent.greeting>>)
      ELSE IF Includes(normalizedInput, Str_voice) \/ Includes(normalizedInput, Str_tone)
        THEN Concat(<<agent.name, Str_ColonSpace, Str_Tone>>)
      ELSE Concat(<<agent.name, Str_Dot, agent.role, Str_ColonSpace,
                    synthesizeResponse(agent, input)>>)

generateAgentReply(agent, input) ==
  LET normalizedInput == ToLowerCase(Trim(input))
  IN  IF Includes(normalizedInput, Str_hello) \/ Includes(normalizedInput, Str_hi)
        THEN Concat(<<agent.name, Str_ColonSpace, agent.greeting>>)
      ELSE IF Includes(normalizedInput, Str_plan) \/ Includes(normalizedInput, Str_strategy)
        THEN Concat(<<agent.name, Str_ColonSpace, Str_Framework>>)
      ELSE IF Includes(normalizedInput, Str_voice) \/ Includes(normalizedInput, Str_tone)
        THEN Concat(<<agent.name, Str_ColonSpace, Str_Tone>>)
      ELSE Concat(<<agent.name, Str_Dot, agent.role, Str_ColonSpace,
                    synthesizeResponse(agent, input)>>)

\* ---- seed data ----

DEFAULT_AGENTS ==
  << [id |-> "connor", name |-> Str_Connor, role |-> Str_StrategyArchitect,
      expertise |-> Str_ConnorExpertise, greeting |-> Str_ConnorGreeting,
      voiceName |-> <<>>, color |-> "#6c5ce7"],
     [id |-> "lyra", name |-> Str_Lyra, role |-> Str_ConversationalUXDesigner,
      expertise |-> Str_LyraExpertise, greeting |-> Str_LyraGreeting,
      voiceName |-> <<>>, color |-> "#00cec9"],
     [id |-> "atlas", name |-> Str_Atlas, role |-> Str_SystemsNavigator,
      expertise |-> Str_AtlasExpertise, greeting |-> Str_AtlasGreeting,
      voiceName |-> <<>>, color |-> "#fd79a8"] >>

\* The message handleStartListening shows when there is no recognition object.
NotSupported == "Speech recognition is not supported in this browser."

\* listeningError = null
Null == "null"

\* ---- the platform, as the model draws it ----

\* What speechSynthesis.getVoices() may return.
Cat_None == <<>>
Cat_En == << [name |-> V_Thomas, lang |-> Lang_frFR],
             [name |-> V_Alex, lang |-> Lang_enUS],
             [name |-> V_Kate, lang |-> Lang_enGB] >>
Cat_Fr == << [name |-> V_Thomas, lang |-> Lang_frFR],
             [name |-> V_Nicolas, lang |-> Lang_frFR] >>
Catalogs == {Cat_None, Cat_En, Cat_Fr}

\* How the page's globals stand for speech recognition: a constructor is
\* there ("ctor"); the names exist and hold undefined ("undefined"); or no
\* such global is declared at all ("undeclared"), as in a browser without the
\* Web Speech recognition API.
Recognitions == {"ctor", "undefined", "undeclared"}

\* Error codes of SpeechRecognitionErrorEvent the model draws.
ErrorCodes == {"no-speech", "not-allowed"}

\* Transcripts a recognition result may carry.
Transcripts == {<<>>, In_blank, In_hi}

\* Texts typed into the draft input.
Drafts == {<<>>, In_blank, In_hi, In_ok}

\* Edits of the persona editor (the voice select is drawn from the catalog).
FieldPatches == { [name |-> Ed_Nova], [greeting |-> Ed_Welcome] }

VARIABLES
  phase,           \* "unmounted", "mounted", or "crashed" (an effect threw)
  recognition,     \* the platform's recognition globals, one of Recognitions
  synthesis,       \* whether window.speechSynthesis is defined
  agents,          \* useState: the roster
  activeAgentId,   \* useState
  messages,        \* useState: the transcript
  draft,           \* useState
  isListening,     \* useState
  listeningError,  \* useState
  recognitionRef,  \* useRef: TRUE when it holds a SpeechRecognition object
  session,         \* the recognition object's session: "idle", "listening",
                   \* "stopping" (stop() called) or "closing" (end pending)
  voices,          \* useSpeechVoices: the catalog in use
  timers,          \* pending setTimeout callbacks of handleSend, oldest first
  utterance,       \* the last SpeechSynthesisUtterance handed to speak, if any
  nextId,          \* stands for crypto.randomUUID(): ids are never repeated
  manualVoice,     \* history: ids of personas whose voice the user has set
  events           \* history: external events handled so far

vars == << phase, recognition, synthesis, agents, activeAgentId, messages, draft,
           isListening, listeningError, recognitionRef, session, voices, timers,
           utterance, nextId, manualVoice, events >>

\* ---- derived values of a render ----

\* const activeAgent = agents.find(a => a.id === activeAgentId) ?? agents[0]
activeAgentOf(ags, id) ==
  IF \E i \in 1..Len(ags) : ags[i].id = id
    THEN ags[CHOOSE i \in 1..Len(ags) :
               ags[i].id = id /\ \A j \in 1..(i - 1) : ags[j].id # id]
    ELSE ags[1]

activeAgent == activeAgentOf(agents, activeAgentId)

\* What the handlers of a render close over.
Render == [activeAgent |-> activeAgent, draft |-> draft, voices |-> voices]

\* The first render, whose handleSend the recognition callbacks keep: the
\* recognition object is created once, by the mount effect.
FirstRender == [activeAgent |-> DEFAULT_AGENTS[1], draft |-> <<>>, voices |-> <<>>]

\* ---- voices ----

\* handleVoicesChanged: the English voices when there are any, else all.
FilterVoices(all) ==
  LET en == SelectSeq(all, LAMBDA v : StartsWith(v.lang, Str_en))
  IN  IF Len(en) > 0 THEN en ELSE all

\* voices.find(predicate), given the indices the predicate holds at: <<the
\* first match>> or <<>>.
Find(seq, hits) ==
  IF hits = {} THEN <<>> ELSE <<seq[CHOOSE i \in hits : \A j \in hits : i <= j]>>

\* assignVoice without the test of agent.voiceName: every persona is resolved
\* anew, to the first candidate that differs from the voice it holds.
assignVoice_Reassign(agent, vs) ==
  IF Len(vs) = 0 THEN agent.voiceName
  ELSE LET voice == Find(vs, {i \in 1..Len(vs) : vs[i].name # agent.voiceName})
       IN  IF voice # <<>> THEN voice[1].name ELSE vs[1].name

assignVoice(agent, vs) ==
  IF Len(vs) = 0 THEN agent.voiceName
  ELSE IF agent.voiceName # <<>> THEN agent.voiceName
  ELSE LET voice == Find(vs, {i \in 1..Len(vs) :
                       Includes(ToLowerCase(vs[i].name), ToLowerCase(Slice0(agent.name, 2)))})
       IN  IF voice # <<>> THEN voice[1].name ELSE vs[1].name

\* The effect on [voices]: setAgents(prev => prev.map(assignVoice)).
ResolveVoices(ags, vs) ==
  [i \in 1..Len(ags) |-> [ags[i] EXCEPT !.voiceName = assignVoice(ags[i], vs)]]

\* ---- the greeting effect ----

\* A greeting message.  (A message's createdAt, Date.now(), is written and
\* never read; the model leaves it out.)
Greeting(agent, id) == [id |-> id, sender |-> "agent", text |-> agent.greeting]

\* The greeting effect without its test of messages.length.
GreetingEffect_Reseed(msgs, agent) == <<Greeting(agent, nextId)>>

\* The effect on [activeAgent, messages.length]: a greeting when the
\* transcript is empty.  It runs after every render that changes either.
GreetingEffect(msgs, agent) ==
  IF Len(msgs) > 0 THEN msgs ELSE <<Greeting(agent, nextId)>>

\* ---- construction ----

\* The useState initial values, before any effect has run.
Init ==
  /\ phase = "unmounted"
  /\ recognition \in Recognitions
  /\ synthesis \in BOOLEAN
  /\ agents = DEFAULT_AGENTS
  /\ activeAgentId = DEFAULT_AGENTS[1].id
  /\ messages = <<>>
  /\ draft = <<>>
  /\ isListening = FALSE
  /\ listeningError = Null
  /\ recognitionRef = FALSE
  /\ session = "idle"
  /\ voices = <<>>
  /\ timers = <<>>
  /\ utterance = <<>>
  /\ nextId = 1
  /\ manualVoice = {}
  /\ events = 0

\* createRecognition: the constructor is looked up as
\*   window.webkitSpeechRecognition ?? window.SpeechRecognition
\*     ?? webkitSpeechRecognition ?? SpeechRecognition
\* The last two are bare identifiers: evaluating one that is not declared
\* throws a ReferenceError.  "object": a recognition object; "null": null is
\* returned; "throws": the ReferenceError.
createRecognition ==
  CASE recognition = "ctor" -> "object"
    [] recognition = "undefined" -> "null"
    [] recognition = "undeclared" -> "throws"

\* The mount: the effects of the first render, in order.  useSpeechVoices
\* reads the catalog when speechSynthesis exists, the [voices] effect
\* resolves the roster against it, the greeting effect seeds the transcript,
\* and the [] effect creates the recognition object.  An effect that throws
\* takes the component tree down: there is no error boundary.
Mount(catalog) ==
  /\ phase = "unmounted"
  /\ IF createRecognition = "throws"
       THEN /\ phase' = "crashed"
            /\ UNCHANGED << agents, messages, voices, nextId, recognitionRef >>
       ELSE /\ phase' = "mounted"
            /\ voices' = IF synthesis THEN FilterVoices(catalog) ELSE <<>>
            /\ agents' = ResolveVoices(agents, voices')
            /\ messages' = GreetingEffect(messages, activeAgent)
            /\ nextId' = nextId + 1
            /\ recognitionRef' = (createRecognition = "object")
  /\ UNCHANGED << recognition, synthesis, activeAgentId, draft, isListening,
                  listeningError, session, timers, utterance, manualVoice, events >>

\* An external event is handled by the mounted component, within the bound.
Handles ==
  /\ phase = "mounted"
  /\ events < MaxEvents

Counted == events' = events + 1

\* The start of a recognition session is counted together with the result or
\* error the platform delivers for it, so that the bound never cuts a started
\* session off from its delivery.
StartCounted ==
  /\ events + 1 < MaxEvents
  /\ events' = events + 2

\* ---- persona store ----

\* onActiveAgentChange = setActiveAgentId, from the roster's buttons; then the
\* greeting effect of the next render.
setActiveAgentId(id) ==
  /\ Handles /\ Counted
  /\ id # activeAgentId
  /\ activeAgentId' = id
  /\ messages' = GreetingEffect(messages, activeAgentOf(agents, id))
  /\ nextId' = IF Len(messages) > 0 THEN nextId ELSE nextId + 1
  /\ UNCHANGED << phase, recognition, synthesis, agents, draft, isListening,
                  listeningError, recognitionRef, session, voices, timers,
                  utterance, manualVoice >>

\* { ...agent, ...patch }
Merge(agent, patch) ==
  [f \in DOMAIN agent |-> IF f \in DOMAIN patch THEN patch[f] ELSE agent[f]]

\* The map of handleAgentUpdate without its test of agent.id: the patch is
\* merged into every persona.
UpdatedAgents_All(ags, agentId, patch) ==
  [i \in 1..Len(ags) |-> Merge(ags[i], patch)]

\* prev.map(agent => agent.id === agentId ? { ...agent, ...patch } : agent)
UpdatedAgents(ags, agentId, patch) ==
  [i \in 1..Len(ags) |-> IF ags[i].id = agentId THEN Merge(ags[i], patch) ELSE ags[i]]

\* handleAgentUpdate, then the greeting effect of the next render.
handleAgentUpdate(agentId, patch) ==
  /\ Handles /\ Counted
  /\ agents' = UpdatedAgents(agents, agentId, patch)
  /\ agents' # agents
  /\ messages' = GreetingEffect(messages, activeAgentOf(agents', activeAgentId))
  /\ nextId' = IF Len(messages) > 0 THEN nextId ELSE nextId + 1
  /\ manualVoice' = IF "voiceName" \in DOMAIN patch
                      THEN manualVoice \cup {agentId} ELSE manualVoice
  /\ UNCHANGED << phase, recognition, synthesis, activeAgentId, draft, isListening,
                  listeningError, recognitionRef, session, voices, timers, utterance >>

\* The options of the voice selects: "System default" and the catalog's names.
VoicePatches ==
  { [voiceName |-> <<>>] } \cup { [voiceName |-> voices[i].name] : i \in 1..Len(voices) }

\* The editor of the sidebar edits the persona whose id is activeAgentId; the
\* voice select of the conversation panel edits activeAgent.
EditActive(patch) ==
  /\ \E i \in 1..Len(agents) : agents[i].id = activeAgentId
  /\ handleAgentUpdate(activeAgentId, patch)

\* The "voiceschanged" event (handleVoicesChanged), then the [voices] effect
\* and the greeting effect of the next render.
VoicesChanged(catalog) ==
  /\ Handles /\ Counted
  /\ synthesis
  /\ voices' = FilterVoices(catalog)
  /\ agents' = ResolveVoices(agents, voices')
  /\ messages' = GreetingEffect(messages, activeAgentOf(agents', activeAgentId))
  /\ nextId' = IF Len(messages) > 0 THEN nextId ELSE nextId + 1
  /\ UNCHANGED << phase, recognition, synthesis, activeAgentId, draft, isListening,
                  listeningError, recognitionRef, session, timers, utterance,
                  manualVoice >>

\* ---- conversation session ----

\* onDraftChange = setDraft
setDraft(text) ==
  /\ Handles /\ Counted
  /\ text # draft
  /\ draft' = text
  /\ UNCHANGED << phase, recognition, synthesis, agents, activeAgentId, messages,
                  isListening, listeningError, recognitionRef, session, voices,
                  timers, utterance, nextId, manualVoice >>

\* const text = textOverride ?? draft.trim()
SendText(hasOverride, textOverride, render) ==
  IF hasOverride THEN textOverride ELSE Trim(render.draft)

\* The callback handleSend hands to setTimeout: the agent message and what
\* speak closes over.
Timer(text, render) ==
  LET agentReplyText == generateAgentReply(render.activeAgent, text)
  IN  [ agentMessage |-> [id |-> nextId + 1, sender |-> "agent", text |-> agentReplyText],
        text |-> agentReplyText,
        voiceName |-> render.activeAgent.voiceName,
        voices |-> render.voices ]

\* handleSend as called from `render`; draftBefore is the draft it leaves
\* when it returns early.  (activeAgent is never undefined: the roster is
\* never empty.)
handleSend(hasOverride, textOverride, render, draftBefore) ==
  LET text == SendText(hasOverride, textOverride, render)
  IN  IF text = <<>>
        THEN /\ draft' = draftBefore
             /\ UNCHANGED << messages, timers, nextId >>
        ELSE /\ messages' = Append(messages, [id |-> nextId, sender |-> "user", text |-> text])
             /\ draft' = <<>>
             /\ timers' = Append(timers, Timer(text, render))
             /\ nextId' = nextId + 2

\* Enter in the input, or the Send button: onSend().
SendTyped ==
  /\ Handles /\ Counted
  /\ handleSend(FALSE, <<>>, Render, draft)
  /\ UNCHANGED << phase, recognition, synthesis, agents, activeAgentId, isListening,
                  listeningError, recognitionRef, session, voices, utterance,
                  manualVoice >>

\* speak(text, voiceName) of the render whose catalog is vs: the utterance
\* handed to speechSynthesis.speak after cancel(), with its voice when the
\* catalog has one of that name.
speak(text, voiceName, vs) ==
  IF synthesis
    THEN utterance' = << [text |-> text,
                          voice |-> Find(vs, {i \in 1..Len(vs) : vs[i].name = voiceName})] >>
    ELSE utterance' = utterance

\* Timers that fire newest first: the callback of the latest send runs before
\* those set earlier.
TimerFire_NewestFirst ==
  /\ timers # <<>>
  /\ LET t == timers[Len(timers)]
     IN  /\ messages' = Append(messages, t.agentMessage)
         /\ speak(t.text, t.voiceName, t.voices)
  /\ timers' = SubSeq(timers, 1, Len(timers) - 1)
  /\ UNCHANGED << phase, recognition, synthesis, agents, activeAgentId, draft,
                  isListening, listeningError, recognitionRef, session, voices,
                  nextId, manualVoice, events >>

\* The timer of a send fires (350 ms; timers of equal delay fire in the order
\* they were set, and none is ever cleared).
TimerFire ==
  /\ timers # <<>>
  /\ LET t == Head(timers)
     IN  /\ messages' = Append(messages, t.agentMessage)
         /\ speak(t.text, t.voiceName, t.voices)
  /\ timers' = Tail(timers)
  /\ UNCHANGED << phase, recognition, synthesis, agents, activeAgentId, draft,
                  isListening, listeningError, recognitionRef, session, voices,
                  nextId, manualVoice, events >>

\* resetConversation that also drops the pending timers of earlier sends.
resetConversation_ClearTimers ==
  /\ Handles /\ Counted
  /\ messages' = <<Greeting(activeAgent, nextId)>>
  /\ nextId' = nextId + 1
  /\ timers' = <<>>
  /\ UNCHANGED << phase, recognition, synthesis, agents, activeAgentId, draft,
                  isListening, listeningError, recognitionRef, session, voices,
                  utterance, manualVoice >>

\* resetConversation that keeps the history and adds the greeting to it.
resetConversation_Append ==
  /\ Handles /\ Counted
  /\ messages' = Append(messages, Greeting(activeAgent, nextId))
  /\ nextId' = nextId + 1
  /\ UNCHANGED << phase, recognition, synthesis, agents, activeAgentId, draft,
                  isListening, listeningError, recognitionRef, session, voices,
                  timers, utterance, manualVoice >>

\* resetConversation (the Reset button).
resetConversation ==
  /\ Handles /\ Counted
  /\ messages' = <<Greeting(activeAgent, nextId)>>
  /\ nextId' = nextId + 1
  /\ UNCHANGED << phase, recognition, synthesis, agents, activeAgentId, draft,
                  isListening, listeningError, recognitionRef, session, voices,
                  timers, utterance, manualVoice >>

\* ---- speech recognition ----

\* handleStartListening (the Speak button, shown while isListening is
\* false).  start() on an object whose session has not ended throws an
\* InvalidStateError, after setListeningError(null).
handleStartListening ==
  /\ ~isListening
  /\ IF ~recognitionRef
       THEN /\ Handles /\ Counted
            /\ listeningError' = NotSupported
            /\ UNCHANGED << isListening, session >>
       ELSE /\ listeningError' = Null
            /\ IF session = "idle"
                 THEN /\ Handles /\ StartCounted
                      /\ session' = "listening" /\ isListening' = TRUE
                 ELSE /\ Handles /\ Counted
                      /\ UNCHANGED << isListening, session >>
  /\ UNCHANGED << phase, recognition, synthesis, agents, activeAgentId, messages,
                  draft, recognitionRef, voices, timers, utterance, nextId,
                  manualVoice >>

\* handleStopListening (the Stop button, shown while isListening is true).
handleStopListening ==
  /\ Handles /\ Counted
  /\ isListening
  /\ session' = IF recognitionRef /\ session = "listening" THEN "stopping" ELSE session
  /\ isListening' = FALSE
  /\ UNCHANGED << phase, recognition, synthesis, agents, activeAgentId, messages,
                  draft, listeningError, recognitionRef, voices, timers, utterance,
                  nextId, manualVoice >>

\* recognition.onresult: setDraft(transcript); handleSend(transcript), the
\* handleSend of the first render.  The delivery was counted with the start
\* of its session.
onresult(transcript) ==
  /\ phase = "mounted"
  /\ session \in {"listening", "stopping"}
  /\ session' = "closing"
  /\ handleSend(TRUE, transcript, FirstRender, transcript)
  /\ UNCHANGED << phase, recognition, synthesis, agents, activeAgentId, isListening,
                  listeningError, recognitionRef, voices, utterance, manualVoice,
                  events >>

\* recognition.onerror
onerror(error) ==
  /\ phase = "mounted"
  /\ session \in {"listening", "stopping"}
  /\ session' = "closing"
  /\ listeningError' = error
  /\ isListening' = FALSE
  /\ UNCHANGED << phase, recognition, synthesis, agents, activeAgentId, messages,
                  draft, recognitionRef, voices, timers, utterance, nextId,
                  manualVoice, events >>

\* recognition.onend without its setIsListening(false).
onend_KeepFlag ==
  /\ phase = "mounted"
  /\ session \in {"stopping", "closing"}
  /\ session' = "idle"
  /\ UNCHANGED << phase, recognition, synthesis, agents, activeAgentId, messages,
                  draft, isListening, listeningError, recognitionRef, voices,
                  timers, utterance, nextId, manualVoice, events >>

\* recognition.onend
onend ==
  /\ phase = "mounted"
  /\ session \in {"stopping", "closing"}
  /\ session' = "idle"
  /\ isListening' = FALSE
  /\ UNCHANGED << phase, recognition, synthesis, agents, activeAgentId, messages,
                  draft, listeningError, recognitionRef, voices, timers, utterance,
                  nextId, manualVoice, events >>

\* ---- the specifications ----

Next ==
  \/ \E catalog \in Catalogs : Mount(catalog)
  \/ \E i \in 1..Len(agents) : setActiveAgentId(agents[i].id)
  \/ \E patch \in FieldPatches \cup VoicePatches : EditActive(patch)
  \/ \E catalog \in Catalogs : VoicesChanged(catalog)
  \/ \E text \in Drafts : setDraft(text)
  \/ SendTyped
  \/ TimerFire
  \/ resetConversation
  \/ handleStartListening
  \/ handleStopListening
  \/ \E transcript \in Transcripts : onresult(transcript)
  \/ \E error \in ErrorCodes : onerror(error)
  \/ onend

Spec == Init /\ [][Next]_vars

\* A timer that is set fires: setTimeout callbacks are never cleared, and the
\* event loop runs them.
FairSpec == Spec /\ WF_vars(TimerFire)

\* What the recognition platform delivers for a started session: one result
\* or one error, then the end notification.
Delivers ==
  \/ \E transcript \in Transcripts : onresult(transcript)
  \/ \E error \in ErrorCodes : onerror(error)

\* A started session is served: the platform delivers, and then ends it.
ListenSpec == Spec /\ WF_vars(Delivers) /\ WF_vars(onend)

\* ---- the persona store called with any id ----

\* An id no persona of the roster has.
UnknownId == "ghost"

\* setActiveAgentId and handleAgentUpdate take any string: (id: string) => void.
\* The sidebar's buttons pass ids of the roster only; here the setter is also
\* called with an id the roster does not have.
StoreNext ==
  \/ Next
  \/ setActiveAgentId(UnknownId)

StoreSpec == Init /\ [][StoreNext]_vars

\* ---- the reply specification: drafts and personas drawn, then sent ----

\* Drafts the reply specification starts from.
ReplyDrafts ==
  { <<>>, In_hi, In_HiTherePlan, In_StrategyPlease, In_VoiceTone, In_PlanVoice,
    In_xyz123, In_ok, In_polygenelubricants }

\* Code units typed into the draft: "h", "i", " ", "Z".
DraftAlphabet == {104, 105, 32, 90}

\* The persona editor's fields after a round of edits.
ReplyPatch ==
  [name |-> Ed_Nova, role |-> Ed_Coach, expertise |-> Ed_QA, greeting |-> Ed_Welcome]

\* A mounted component (constructor and synthesis present, catalog Cat_En)
\* whose user has selected a persona, edited it or not, and filled the draft.
ReplyInit ==
  /\ phase = "mounted"
  /\ recognition = "ctor"
  /\ synthesis = TRUE
  /\ voices = FilterVoices(Cat_En)
  /\ activeAgentId \in {DEFAULT_AGENTS[i].id : i \in 1..Len(DEFAULT_AGENTS)}
  /\ agents \in { ResolveVoices(DEFAULT_AGENTS, voices),
                   UpdatedAgents(ResolveVoices(DEFAULT_AGENTS, voices),
                                 activeAgentId, ReplyPatch) }
  /\ messages = <<[id |-> 1, sender |-> "agent", text |-> DEFAULT_AGENTS[1].greeting]>>
  /\ draft \in ReplyDrafts
  /\ isListening = FALSE
  /\ listeningError = Null
  /\ recognitionRef = TRUE
  /\ session = "idle"
  /\ timers = <<>>
  /\ utterance = <<>>
  /\ nextId = 2
  /\ manualVoice = {}
  /\ events = 0

\* A keystroke in the draft input: onDraftChange(draft + key).
TypeKey(unit) ==
  /\ Len(draft) < MaxLen
  /\ setDraft(Append(draft, unit))

ReplyNext ==
  \/ \E unit \in DraftAlphabet : TypeKey(unit)
  \/ SendTyped
  \/ TimerFire

ReplySpec == ReplyInit /\ [][ReplyNext]_vars

\* ---- the claims ----

Last(seq) == seq[Len(seq)]

\* A step in which handleSend accepted a text: a timer was set.
Accepted == Len(timers') = Len(timers) + 1

IsBlank(text) == Trim(text) = <<>>

\* C1: sending a text that is empty or only whitespace leaves the transcript
\* unchanged and schedules no reply, whether the text is the typed draft or
\* a recognized transcript passed as textOverride.
C1_BlankSendIsNoOp ==
  [][ ( \/ IsBlank(draft) /\ SendTyped
        \/ \E transcript \in Transcripts : IsBlank(transcript) /\ onresult(transcript) )
      => (messages' = messages /\ timers' = timers) ]_vars

\* C2: for every accepted user turn, typed or recognized, the reply that is
\* scheduled, appended and spoken is reply(P, text) with P's resolved voice,
\* P being the persona active, with its current fields, when the input is
\* accepted.
C2_ReplyFromActivePersona ==
  [][ /\ Accepted =>
           /\ Last(timers').agentMessage.text
                = generateAgentReply(activeAgent, Last(messages').text)
           /\ Last(timers').text = Last(timers').agentMessage.text
           /\ Last(timers').voiceName = activeAgent.voiceName
      /\ TimerFire =>
           /\ Last(messages') = Head(timers).agentMessage
           /\ synthesis =>
                /\ utterance'[1].text = Head(timers).text
                /\ \/ utterance'[1].voice = <<>>
                   \/ utterance'[1].voice[1].name = Head(timers).voiceName ]_vars

\* C3: immediately after reset the transcript is exactly one turn, from the
\* agent, whose text is the active persona's current greeting, whatever the
\* transcript held before.
C3_ResetYieldsGreeting ==
  [][ resetConversation =>
        /\ Len(messages') = 1
        /\ messages'[1].sender = "agent"
        /\ messages'[1].text = activeAgent.greeting ]_vars

\* C3's case: a reset after the greeting was edited and a turn was sent.
C3_Witness ==
  /\ Len(messages) = 1
  /\ messages[1].sender = "agent"
  /\ messages[1].text = Ed_Welcome
  /\ messages[1].id >= 4

\* Ids that crypto.randomUUID() stands for within the bound.
IdBound == 2 * MaxEvents + 2

InTranscript(id) == \E i \in 1..Len(messages) : messages[i].id = id

Pending(id) == \E i \in 1..Len(timers) : timers[i].agentMessage.id = id

\* C4: the delayed append is never cancelled.  A reset leaves the pending
\* timers alone; the queue of timers changes only by a send adding one at
\* its end or by its head firing, which appends that timer's agent turn at
\* the end of the transcript as it then stands (after the greeting, when a
\* reset came in between); a reply enters the transcript only as its timer
\* leaves the queue, so exactly once; and the pending timers do fire.
C4_ReplyNeverCancelled ==
  /\ [][ resetConversation => timers' = timers ]_vars
  /\ [][ timers' # timers =>
           \/ Accepted /\ SubSeq(timers', 1, Len(timers)) = timers
           \/ /\ timers # <<>> /\ timers' = Tail(timers)
              /\ messages' = Append(messages, Head(timers).agentMessage) ]_vars
  /\ [][ \A id \in 1..IdBound :
           (InTranscript(id)' /\ ~InTranscript(id)) =>
              \/ id >= nextId
              \/ /\ timers # <<>> /\ Head(timers).agentMessage.id = id
                 /\ ~Pending(id)' ]_vars
  /\ (timers # <<>>) ~> (timers = <<>>)

\* C4's case: the reply of a send made before a reset stands after the
\* greeting the reset left (the greeting's id is the later one).
C4_Witness ==
  /\ Len(messages) = 2
  /\ messages[1].sender = "agent" /\ messages[2].sender = "agent"
  /\ messages[1].id > messages[2].id
  /\ timers = <<>>

\* A persona becomes the active one: by a selection, or first at the mount.
Activates ==
  \/ activeAgentId' # activeAgentId
  \/ phase = "unmounted" /\ phase' = "mounted"

\* C5: when the active persona changes and the transcript is non-empty, every
\* turn stays and none is added; when it is empty, exactly one greeting turn
\* of the newly active persona is inserted.
C5_SwitchKeepsTranscript ==
  [][ Activates =>
        IF Len(messages) > 0
          THEN messages' = messages
          ELSE /\ Len(messages') = 1
               /\ messages'[1].sender = "agent"
               /\ messages'[1].text = activeAgent'.greeting ]_vars

\* C5's case: another persona was selected while the transcript held turns.
C5_Witness ==
  /\ activeAgentId # DEFAULT_AGENTS[1].id
  /\ Len(messages) >= 2
  /\ messages[1].text = DEFAULT_AGENTS[1].greeting
  /\ messages[2].sender = "user"

\* The reply the rules of C6 give, in their order.
RuleReply(agent, text, reply) ==
  LET n == ToLowerCase(Trim(text))
      body == SubSeq(reply, Len(agent.name) + Len(agent.role) + 6, Len(reply))
  IN  IF Includes(n, Str_hello) \/ Includes(n, Str_hi)
        THEN reply = agent.name \o Str_ColonSpace \o agent.greeting
      ELSE IF Includes(n, Str_plan) \/ Includes(n, Str_strategy)
        THEN reply = agent.name \o Str_ColonSpace \o Str_Framework
      ELSE IF Includes(n, Str_voice) \/ Includes(n, Str_tone)
        THEN reply = agent.name \o Str_ColonSpace \o Str_Tone
      ELSE /\ reply = agent.name \o Str_Dot \o agent.role \o Str_ColonSpace \o body
           /\ \E k \in 1..Len(Templates(agent, text)) : body = Templates(agent, text)[k]

\* C6: the reply scheduled for an accepted text follows the four rules in
\* their fixed order on the trimmed, lower-cased input; an input with both
\* "hi" and "plan" gets the greeting reply; and seed Connor answers "hi" with
\* "Connor: Let's map the path to sustainable growth together.".
C6_RulePrecedence ==
  [][ Accepted =>
        LET text == Last(messages').text
            reply == Last(timers').text
        IN  /\ RuleReply(activeAgent, text, reply)
            /\ (Includes(ToLowerCase(Trim(text)), Str_hi)
                  /\ Includes(ToLowerCase(Trim(text)), Str_plan))
                 => reply = activeAgent.name \o Str_ColonSpace \o activeAgent.greeting
            /\ (text = In_hi /\ activeAgent.name = DEFAULT_AGENTS[1].name
                  /\ activeAgent.greeting = DEFAULT_AGENTS[1].greeting)
                 => reply = Str_ConnorHiReply ]_vars

\* C6's case: "Hi there, any plan?" was sent and answered with the greeting
\* reply of the persona.
C6_Witness ==
  /\ Len(messages) >= 3
  /\ messages[2].text = In_HiTherePlan
  /\ messages[3].sender = "agent"
  /\ \E i \in 1..Len(agents) :
       messages[3].text = agents[i].name \o Str_ColonSpace \o agents[i].greeting

\* hash = (hash * 31 + charCode) truncated to 32 bits, on 16-bit halves.
RECURSIVE Rolling31(_, _)
Rolling31(word, value) ==
  IF value = <<>> \/ ~IsWord(word) THEN word
  ELSE LET lo == word[2] * 31 + Head(value)
       IN  Rolling31(<<(word[1] * 31 + lo \div Half) % Half, lo % Half>>, Tail(value))

\* The texts a send would hand to the reply generator now: the draft as
\* a recognized transcript would arrive, and as handleSend trims it.
HashedTexts == {draft, Trim(draft)}

\* C7: hashString is the 32-bit rolling hash with multiplier 31, zero on the
\* empty string; the template index abs(hash(S)) mod 5 is in 0..4 for every
\* S, also when the hash is -2^31, and depends on S alone.
C7_HashAndIndex ==
  /\ hashString(<<>>) = 0
  /\ \A text \in HashedTexts :
       LET index == TemplateIndex(activeAgent, text)
       IN  /\ hashString(text) = ToInt32(Rolling31(<<0, 0>>, text))
           /\ index \in 0..4
           /\ \A i \in 1..Len(agents) : TemplateIndex(agents[i], text) = index

\* C7's case: a text whose hash is -2^31 was sent and answered from template
\* 3 (abs(-2^31) mod 5).
C7_Witness ==
  /\ Len(messages) >= 3
  /\ messages[2].sender = "user"
  /\ hashString(messages[2].text) = (0 - Half) * (Half \div 2)
  /\ messages[3].sender = "agent"
  /\ \E i \in 1..Len(agents) :
       messages[3].text = agents[i].name \o Str_Dot \o agents[i].role \o Str_ColonSpace
                            \o Concat(<<Str_T3a, messages[2].text, Str_T3b>>)

\* C8: whenever the voice resolution runs, every persona whose voice was set
\* by the user still holds the user's choice afterwards.
C8_ResolutionKeepsUserVoice ==
  [][ (\E catalog \in Catalogs : VoicesChanged(catalog)) =>
        \A i \in 1..Len(agents) :
          agents[i].id \in manualVoice => agents'[i].voiceName = agents[i].voiceName ]_vars

\* C9: for every catalog and every roster the component reaches, a second run
\* of the voice resolution with the same catalog changes no persona's voice.
C9_ResolutionIdempotent ==
  \A catalog \in Catalogs :
    LET vs == FilterVoices(catalog)
        once == ResolveVoices(agents, vs)
        twice == ResolveVoices(once, vs)
    IN  \A i \in 1..Len(agents) : twice[i].voiceName = once[i].voiceName

\* C9's case: a roster the user has edited, in which a first run resolves a
\* persona that has no voice and leaves one that has.
C9_Witness ==
  /\ manualVoice # {}
  /\ \E i, j \in 1..Len(agents) :
       /\ agents[i].voiceName = <<>>
       /\ agents[j].voiceName # <<>>
       /\ ResolveVoices(agents, FilterVoices(Cat_Fr))[i].voiceName # <<>>

\* C10: with no recognition capability the component still initialises; a
\* start-listening attempt sets the "not supported" message and leaves the
\* listening flag false and the transcript as it was; and typed text is
\* still accepted: its user turn is appended and its reply scheduled.
C10_NoRecognitionDegrades ==
  [][ recognition # "ctor" =>
        /\ phase = "unmounted" => phase' \in {"unmounted", "mounted"}
        /\ handleStartListening =>
             /\ listeningError' = NotSupported
             /\ ~isListening'
             /\ messages' = messages
        /\ (SendTyped /\ ~IsBlank(draft)) =>
             /\ Accepted
             /\ Len(messages') = Len(messages) + 1
             /\ Last(messages').sender = "user"
             /\ Last(messages').text = Trim(draft) ]_vars

\* C11: the listening flag goes from false to true when a session is started
\* on an idle recognition object; a result leaves the flag to the end
\* notification, which clears it; an error clears it and stores the
\* platform's error code as it is; a stop clears it.  With the platform
\* delivering one result or error and then the end of every started session,
\* a raised flag is always followed by a lowered one.
C11_ListeningReturnsToIdle ==
  /\ [][ (handleStartListening /\ recognitionRef /\ session = "idle")
            => (~isListening /\ isListening' /\ session' = "listening") ]_vars
  /\ [][ (isListening' /\ ~isListening) => handleStartListening ]_vars
  /\ [][ \A error \in ErrorCodes :
            onerror(error) => (listeningError' = error /\ ~isListening') ]_vars
  /\ [][ handleStopListening => ~isListening' ]_vars
  /\ [][ onend => ~isListening' ]_vars
  /\ [](isListening => session \in {"listening", "closing"})
  /\ isListening ~> ~isListening

\* A session that was started, ended by an error, with the flag lowered and
\* the code kept while the end notification is still to come.
C11_Witness ==
  /\ listeningError = "not-allowed"
  /\ ~isListening
  /\ session = "closing"

\* The personas the sidebar's editor shows: those whose id is activeAgentId.
Edited == {i \in 1..Len(agents) : agents[i].id = activeAgentId}

EditorPatches ==
  FieldPatches \cup VoicePatches \cup { [role |-> Ed_Coach], [expertise |-> Ed_QA] }

\* The ids of a roster, in order.
Ids(ags) == [i \in 1..Len(ags) |-> ags[i].id]

\* C13: whatever updates and voice resolutions have happened, the roster has
\* the seed list's ids in the seed list's order, each once; an update merges
\* its patch into the persona of the given id and leaves every other persona
\* as it was; an update with an id no persona has leaves the roster as it was.
C13_RosterIdsFixed ==
  /\ [](Ids(agents) = Ids(DEFAULT_AGENTS))
  /\ [](\A i, j \in 1..Len(agents) : agents[i].id = agents[j].id => i = j)
  /\ [][ \A k \in 1..Len(agents) : \A patch \in EditorPatches :
            handleAgentUpdate(agents[k].id, patch) =>
               /\ agents'[k] = Merge(agents[k], patch)
               /\ \A i \in 1..Len(agents) : i # k => agents'[i] = agents[i] ]_vars
  /\ [](\A patch \in EditorPatches : UpdatedAgents(agents, UnknownId, patch) = agents)

\* A roster after an edit of Connor's name and a resolution that gave Lyra a
\* voice.
C13_Witness ==
  /\ agents[1].name = Ed_Nova
  /\ agents[2].voiceName # <<>>
  /\ Ids(agents) = Ids(DEFAULT_AGENTS)

\* The user turns of the transcript, in order.
Users == SelectSeq(messages, LAMBDA m : m.sender = "user")

\* The replies of the transcript whose user turn is in the transcript, in
\* order: the replies to the sends made since the last reset.  (handleSend
\* draws the reply's id right after the user turn's.)
Replies ==
  SelectSeq(messages, LAMBDA m :
    /\ m.sender = "agent"
    /\ \E i \in 1..Len(messages) :
          messages[i].sender = "user" /\ messages[i].id + 1 = m.id)

\* C14: the transcript changes only by a reset or by one turn added at its
\* end, the turns before it staying as they were and in their order; an
\* accepted send adds the user turn and sets, last in the queue, the timer of
\* the reply to that turn's text; a reply stands after its user turn; the
\* pending replies wait in the order of their user turns, and the k-th reply
\* to the sends made since the last reset answers the k-th user turn.
C14_AppendOnlyInOrder ==
  /\ [][ messages' # messages =>
            \/ resetConversation
            \/ /\ Len(messages') = Len(messages) + 1
               /\ SubSeq(messages', 1, Len(messages)) = messages ]_vars
  /\ [][ Accepted =>
            /\ Len(messages') = Len(messages) + 1
            /\ Last(messages').sender = "user"
            /\ Last(timers').agentMessage.id = Last(messages').id + 1
            /\ Last(timers').agentMessage.text \in
                  { generateAgentReply(a, Last(messages').text) :
                      a \in {activeAgent, FirstRender.activeAgent} }
            /\ \A i \in 1..Len(messages') :
                  messages'[i].id # Last(timers').agentMessage.id ]_vars
  /\ [](\A i, j \in 1..Len(messages) :
          (messages[i].sender = "user" /\ messages[j].id = messages[i].id + 1) => i < j)
  /\ [](\A i, j \in 1..Len(timers) :
          i < j => timers[i].agentMessage.id < timers[j].agentMessage.id)
  /\ [](/\ Len(Replies) <= Len(Users)
        /\ \A k \in 1..Len(Replies) : Replies[k].id = Users[k].id + 1)

\* Two user turns sent before either timer fired, then both replies, in the
\* order of the user turns.
C14_Witness ==
  /\ Len(messages) = 5
  /\ messages[2].sender = "user" /\ messages[3].sender = "user"
  /\ messages[4].id = messages[2].id + 1
  /\ messages[5].id = messages[3].id + 1
  /\ timers = <<>>

====
